---------------------------- MODULE Spec2Model ----------------------------
(***************************************************************************)
(* A model of familinx.py: the FamiLinx registry (identity map), the       *)
(* cached_property lazy fields of Person, the derived partners list and    *)
(* the two generators Person.descendants and Person.walk.                  *)
(*                                                                         *)
(* The source is Python 2 (print statement, iteritems, basestring).  Two   *)
(* language rules decide behaviour here:                                   *)
(*   - Person defines __eq__ (by id) and __hash__ (a constant: `id` in     *)
(*     __hash__ is the builtin function), so `in`, set() and dict keys     *)
(*     compare Persons by id;                                              *)
(*   - Person defines no __ne__, and Python 2 derives none from __eq__, so *)
(*     `a != b` is the default comparison: object identity.                *)
(***************************************************************************)
EXTENDS Integers, Sequences, FiniteSets, TLC

(***************************************************************************)
(* Bounds of the model.                                                    *)
(***************************************************************************)
MaxId == 2        \* person ids of the registry specifications: 1..MaxId
MaxRows == 2      \* rows of the relationship table, registry specifications
MaxObj == 3       \* Person instances allocated in one run
MaxCalls == 4     \* calls the caller makes in one run, registry specifications
MaxNode == 3      \* person ids of the traversal specifications: 1..MaxNode
MaxEdges == 3     \* rows of the relationship table, traversal specifications
MaxRadius == 2    \* radii passed to walk: 0..MaxRadius

(***************************************************************************)
(* Program constants.                                                      *)
(***************************************************************************)
MIN_PERSON_ID == 1
MALE_CODE == 1
FEMALE_CODE == 2

VARIABLES
    population,     \* the ids the store and the caller use
    relationship,   \* store: table relationship, rows <<Parent_Id, Child_Id>>
    ageTable,       \* store: table age, id -> <<>> (no row) or <<Age>>
    genderTable,    \* store: table gender, id -> 0 (no row) or the Gender code
    heap,           \* the Person instances, by reference 1..Len(heap)
    people,         \* FamiLinx._people: id -> reference, 0 when the key is absent
    last,           \* what the caller's last call did and returned
    got,            \* history: id -> what get_person last returned since a clear_cache
    assigned,       \* history: <<ref, field>> -> the value last assigned, if still in force
    evicted,        \* history: the ids clear_cache has removed from _people
    desc,           \* the caller's descendants() generator
    wlk,            \* the caller's walk() generator
    prevWalk,       \* history: the last walk without predicate driven to exhaustion
    calls           \* the number of calls made, registry specifications

vars == <<population, relationship, ageTable, genderTable, heap, people, last,
          got, assigned, evicted, desc, wlk, prevWalk, calls>>

store == <<population, relationship, ageTable, genderTable>>

(***************************************************************************)
(* Values.  A Python value is a sequence: None is <<>>, a scalar v is      *)
(* <<v>>, a list of Persons is the sequence of their references.           *)
(***************************************************************************)
None == <<>>
Val(v) == <<v>>

ScalarFields == {"age", "gender"}
ListFields == {"parents", "children"}
LazyFields == ScalarFields \cup ListFields
Fields == LazyFields \cup {"partners"}

\* A cache slot: has = the key is in __cached_properties.
Empty == [has |-> FALSE, val |-> None]
Filled(v) == [has |-> TRUE, val |-> v]

\* Person.__init__: no cached property yet.
NewPerson(id) == [id |-> id, cache |-> [f \in Fields |-> Empty]]

\* Person.__eq__: by id.
eq(m, a, b) == m.heap[a].id = m.heap[b].id

\* `a != b` on Persons, Python 2: no __ne__, so object identity.
ne(m, a, b) == a # b

\* `x in s` for a set or list s of Persons: some element equals x.
contains(m, s, x) == \E i \in 1..Len(s) : eq(m, s[i], x)

\* set.add: the set keeps one element per equality class (insertion order
\* stands for the unspecified iteration order).
set_add(m, s, x) == IF contains(m, s, x) THEN s ELSE Append(s, x)

RECURSIVE set_of(_, _)
set_of(m, xs) ==
    IF xs = <<>> THEN <<>>
    ELSE LET n == Len(xs) IN set_add(m, set_of(m, SubSeq(xs, 1, n - 1)), xs[n])

(***************************************************************************)
(* The DataStore.  A cursor yields the rows in ascending id order.         *)
(***************************************************************************)
RECURSIVE Rows(_)
Rows(S) ==
    IF S = {} THEN <<>>
    ELSE LET x == CHOOSE y \in S : \A z \in S : y <= z
         IN <<x>> \o Rows(S \ {x})

ParentRows(id) == Rows({r[1] : r \in {q \in relationship : q[2] = id}})
ChildRows(id) == Rows({r[2] : r \in {q \in relationship : q[1] = id}})

(***************************************************************************)
(* FamiLinx.get_person.  m = [heap, people, nq]: the program state a call  *)
(* threads through, nq counting the queries the call has issued.  A call   *)
(* returns [m, val, raised]: the state it leaves, its value, whether it    *)
(* raised.  An operator that continues from a call's result takes the      *)
(* result as a parameter.                                                  *)
(***************************************************************************)
Return(m, val) == [m |-> m, val |-> val, raised |-> FALSE]

Raise(m) == [m |-> m, val |-> None, raised |-> TRUE]

\* F applied to the result r of a call, the call evaluated once.
Bind(r, F(_)) == CHOOSE y \in {F(v) : v \in {r}} : TRUE

\* A registry that builds the Person and keeps no entry for it.
new_person_unregistered(m, id) ==
    Return([m EXCEPT !.heap = Append(@, NewPerson(id))], Len(m.heap) + 1)

\* self._people[id] = person = Person(id, self)
new_person(m, id) ==
    Return([m EXCEPT !.heap = Append(@, NewPerson(id)),
                     !.people[id] = Len(m.heap) + 1],
           Len(m.heap) + 1)

\* A registry without the identity map: every lookup builds a Person.
get_person_fresh(m, id) == new_person(m, id)

get_person(m, id) ==
    IF m.people[id] = 0                 \* `if not person`
    THEN new_person(m, id)
    ELSE Return(m, m.people[id])

\* The value v put before the list the call r returned.
Prepend(v, r) == [r EXCEPT !.val = v \o @]

\* [self.db.get_person(row[0]) for row in self.db.cur]
RECURSIVE get_people(_, _)
get_rest(r, rows) == Prepend(<<r.val>>, get_people(r.m, rows))

get_people(m, rows) ==
    IF rows = <<>> THEN Return(m, <<>>)
    ELSE Bind(get_person(m, Head(rows)), LAMBDA r : get_rest(r, Tail(rows)))

\* self.db.cur.execute(sql, ...)
Query(m) == [m EXCEPT !.nq = @ + 1]

(***************************************************************************)
(* The methods the lazy fields wrap.                                       *)
(***************************************************************************)
age(m, self) == Return(Query(m), ageTable[m.heap[self].id])

\* GENDERS.get(code): a code outside the table gives None.
GENDERS_get(m, code) ==
    CASE code = MALE_CODE -> Return(m, Val("male"))
      [] code = FEMALE_CODE -> Return(m, Val("female"))
      [] OTHER -> Return(m, None)

\* GENDERS[code]: a code outside the table raises KeyError.
GENDERS(m, code) ==
    CASE code = MALE_CODE -> Return(m, Val("male"))
      [] code = FEMALE_CODE -> Return(m, Val("female"))
      [] OTHER -> Raise(m)

gender(m, self) ==
    IF genderTable[m.heap[self].id] = 0
    THEN Return(Query(m), None)
    ELSE GENDERS(Query(m), genderTable[m.heap[self].id])

parents(m, self) == get_people(Query(m), ParentRows(m.heap[self].id))

children(m, self) == get_people(Query(m), ChildRows(m.heap[self].id))

(***************************************************************************)
(* cached_property: getter, setter, deleter.                               *)
(***************************************************************************)
RECURSIVE getter(_, _, _)

\* child.parents for each child in turn, in one list.
\* The parents of the first child only.
parents_of_first_child(m, cs) ==
    IF cs = <<>> THEN Return(m, <<>>) ELSE getter(m, Head(cs), "parents")

RECURSIVE parents_of(_, _)
parents_of_rest(r, cs) == Prepend(r.val, parents_of(r.m, cs))

parents_of(m, cs) ==
    IF cs = <<>> THEN Return(m, <<>>)
    ELSE Bind(getter(m, Head(cs), "parents"),
              LAMBDA r : parents_of_rest(r, Tail(cs)))

\* A partners that invalidates the children list it was computed from.
partners_among_invalidating(ps, self) ==
    Return([ps.m EXCEPT !.heap[self].cache["children"] = Empty],
           set_of(ps.m, SelectSeq(ps.val, LAMBDA parent : ne(ps.m, parent, self))))

\* list(set(parent for ... if parent != self)), ps the parents met.
partners_among(ps, self) ==
    Return(ps.m, set_of(ps.m, SelectSeq(ps.val, LAMBDA parent : ne(ps.m, parent, self))))

partners_via(cs, self) ==
    Bind(parents_of(cs.m, cs.val), LAMBDA ps : partners_among(ps, self))

partners(m, self) ==
    Bind(getter(m, self, "children"), LAMBDA cs : partners_via(cs, self))

method(m, self, key) ==
    CASE key = "age" -> age(m, self)
      [] key = "gender" -> gender(m, self)
      [] key = "parents" -> parents(m, self)
      [] key = "children" -> children(m, self)
      [] key = "partners" -> partners(m, self)

\* A getter that keeps no absent result (`if result is not None`).
store_result_unless_none(r, self, key) ==
    IF r.raised \/ r.val = None THEN r
    ELSE Return([r.m EXCEPT !.heap[self].cache[key] = Filled(r.val)], r.val)

\* cached_properties[key] = result; return result.  A method that raised
\* stores nothing.
store_result(r, self, key) ==
    IF r.raised THEN r
    ELSE Return([r.m EXCEPT !.heap[self].cache[key] = Filled(r.val)], r.val)

getter(m, self, key) ==
    IF m.heap[self].cache[key].has
    THEN Return(m, m.heap[self].cache[key].val)
    ELSE Bind(method(m, self, key), LAMBDA r : store_result(r, self, key))

\* A setter that takes None for "no value" and drops the key.
setter_unless_none(m, self, key, val) ==
    IF val = None THEN [m EXCEPT !.heap[self].cache[key] = Empty]
    ELSE [m EXCEPT !.heap[self].cache[key] = Filled(val)]

setter(m, self, key, val) == [m EXCEPT !.heap[self].cache[key] = Filled(val)]

deleter(m, self, key) == [m EXCEPT !.heap[self].cache[key] = Empty]

clear_cached_properties(m, object) ==
    [m EXCEPT !.heap[object].cache = [f \in Fields |-> Empty]]

\* FamiLinx.clear_cache; id = None is the call with the argument omitted.
\* `if id:` is false for None and for 0.
clear_cache(m, id) ==
    IF id # None /\ id[1] # 0
    THEN IF id[1] \in DOMAIN m.people /\ m.people[id[1]] # 0
         THEN [m EXCEPT !.people[id[1]] = 0]
         ELSE m
    ELSE [m EXCEPT !.people = [x \in DOMAIN m.people |-> 0]]

(***************************************************************************)
(* Person.descendants, a generator.  g = [pc, self, queue, visited,        *)
(* person, out]: pc is "created" before the first next(), "yield" while    *)
(* suspended at `yield person`, "done" once exhausted; out lists what was  *)
(* yielded.  One next() runs the body from where it stands to the next     *)
(* yield: the statements after the yield belong to the following next().   *)
(* A next() returns [m, g].                                                *)
(***************************************************************************)
NoGen == [pc |-> "none"]

descendants(self) ==
    [pc |-> "created", self |-> self, queue |-> <<>>, visited |-> <<>>,
     person |-> 0, out |-> <<>>]

\* queue.pop()
Top(queue) == queue[Len(queue)]
Pop(queue) == SubSeq(queue, 1, Len(queue) - 1)

\* while queue: person = queue.pop(); if person not in visited: yield person
\* Returns the Person to yield, 0 when the queue ran out.
\* A loop without the visited test.
desc_loop_novisited(m, queue, visited) ==
    IF queue = <<>> THEN [queue |-> <<>>, person |-> 0]
    ELSE [queue |-> Pop(queue), person |-> Top(queue)]

RECURSIVE desc_loop(_, _, _)
desc_loop(m, queue, visited) ==
    IF queue = <<>> THEN [queue |-> <<>>, person |-> 0]
    ELSE IF ~contains(m, visited, Top(queue))
         THEN [queue |-> Pop(queue), person |-> Top(queue)]
         ELSE desc_loop(m, Pop(queue), visited)

\* The generator suspended at the yield, or exhausted.
desc_at(g, visited, l) ==
    IF l.person = 0
    THEN [g EXCEPT !.pc = "done", !.queue = <<>>, !.visited = visited,
                   !.person = 0]
    ELSE [g EXCEPT !.pc = "yield", !.queue = l.queue, !.visited = visited,
                   !.person = l.person, !.out = Append(@, l.person)]

desc_run(m, g, queue, visited) ==
    Bind(desc_loop(m, queue, visited), LAMBDA l : desc_at(g, visited, l))

\* queue = list(self.children); visited = set(), r the read of self.children.
desc_start(g, r) == [m |-> r.m, g |-> desc_run(r.m, g, r.val, <<>>)]

\* A resume that queues the first child only.
desc_resume_first_child(g, r) ==
    [m |-> r.m,
     g |-> desc_run(r.m, g, g.queue \o (IF r.val = <<>> THEN <<>> ELSE <<Head(r.val)>>),
                    set_add(r.m, g.visited, g.person))]

\* visited.add(person); queue.extend(person.children), r the read of
\* person.children.
desc_resume(g, r) ==
    [m |-> r.m,
     g |-> desc_run(r.m, g, g.queue \o r.val, set_add(r.m, g.visited, g.person))]

\* next(g) on a generator that is not exhausted.
descendants_next(m, g) ==
    IF g.pc = "created"
    THEN Bind(getter(m, g.self, "children"), LAMBDA r : desc_start(g, r))
    ELSE Bind(getter(m, g.person, "children"), LAMBDA r : desc_resume(g, r))

\* list(g): next() until the generator is exhausted.
RECURSIVE descendants_all(_, _)
desc_all_from(r) == descendants_all(r.m, r.g)

descendants_all(m, g) ==
    IF g.pc \in {"created", "yield"}
    THEN Bind(descendants_next(m, g), LAMBDA r : desc_all_from(r))
    ELSE [m |-> m, g |-> g]

(***************************************************************************)
(* Person.walk, a generator.  g = [pc, self, visitable, radius, filter,    *)
(* queue, visited, dists, person, out].  visitable is None or <<S>>, the   *)
(* caller's predicate `p.id in S`; radius is None or <<r>>.  dists, a dict *)
(* keyed by Person (equal by id), maps an id to its distance, -1 when the  *)
(* key is absent.  pc is "raised" once next() has raised.                  *)
(***************************************************************************)
walk(self, visitable, radius) ==
    [pc |-> "created", self |-> self, visitable |-> visitable,
     radius |-> radius, filter |-> "", queue |-> <<>>, visited |-> <<>>,
     dists |-> [x \in population |-> -1], person |-> 0, out |-> <<>>]

\* `if radius:` rebinds visitable.  With a predicate given, the new lambda's
\* body names `visitable`, which by then is the lambda itself.
walk_filter(visitable, radius) ==
    IF radius # None /\ radius[1] # 0
    THEN IF visitable # None THEN "self_reference" ELSE "radius"
    ELSE IF visitable # None THEN "predicate" ELSE "none"

\* `not visitable or visitable(person)`: "yes", "no", or "raise" when the
\* self-referring lambda recurses until the interpreter's limit, or when
\* dists has no such key.
walk_visitable(m, g, dists, person) ==
    CASE g.filter = "none" -> "yes"
      [] g.filter = "predicate" ->
            IF m.heap[person].id \in g.visitable[1] THEN "yes" ELSE "no"
      [] g.filter = "radius" ->
            IF dists[m.heap[person].id] = -1 THEN "raise"
            ELSE IF dists[m.heap[person].id] <= g.radius[1] THEN "yes" ELSE "no"
      [] g.filter = "self_reference" -> "raise"

\* while queue: person = queue.pop();
\*     if person not in visited and (not visitable or visitable(person)): yield
\* A loop without the visited test.
walk_loop_novisited(m, g, queue, visited, dists) ==
    IF queue = <<>> THEN [queue |-> <<>>, person |-> 0, raised |-> FALSE]
    ELSE [queue |-> Pop(queue), person |-> Top(queue), raised |-> FALSE]

RECURSIVE walk_loop(_, _, _, _, _)
walk_tested(m, g, queue, visited, dists, v) ==
    CASE v = "raise" -> [queue |-> Pop(queue), person |-> 0, raised |-> TRUE]
      [] v = "yes" -> [queue |-> Pop(queue), person |-> Top(queue), raised |-> FALSE]
      [] v = "no" -> walk_loop(m, g, Pop(queue), visited, dists)

walk_loop(m, g, queue, visited, dists) ==
    IF queue = <<>> THEN [queue |-> <<>>, person |-> 0, raised |-> FALSE]
    ELSE IF contains(m, visited, Top(queue))
         THEN walk_loop(m, g, Pop(queue), visited, dists)
         ELSE walk_tested(m, g, queue, visited, dists,
                          walk_visitable(m, g, dists, Top(queue)))

\* The generator suspended at the yield, exhausted, or ended by the raise.
walk_at(g, visited, dists, l) ==
    IF l.raised
    THEN [g EXCEPT !.pc = "raised", !.queue = l.queue, !.visited = visited,
                   !.dists = dists, !.person = 0]
    ELSE IF l.person = 0
    THEN [g EXCEPT !.pc = "done", !.queue = <<>>, !.visited = visited,
                   !.dists = dists, !.person = 0]
    ELSE [g EXCEPT !.pc = "yield", !.queue = l.queue, !.visited = visited,
                   !.dists = dists, !.person = l.person,
                   !.out = Append(@, l.person)]

walk_run(m, g, queue, visited, dists) ==
    Bind(walk_loop(m, g, queue, visited, dists),
         LAMBDA l : walk_at(g, visited, dists, l))

\* person.children alone.
neighbors_children(c, person) == c

\* person.children + person.parents
neighbors_with(c, person) ==
    Bind(getter(c.m, person, "parents"), LAMBDA p : Prepend(c.val, p))

neighbors_of(m, person) ==
    Bind(getter(m, person, "children"), LAMBDA c : neighbors_with(c, person))

Min(a, b) == IF a < b THEN a ELSE b

\* dists.get(neighbor, default)
dists_get(dists, k, default) == IF dists[k] = -1 THEN default ELSE dists[k]

\* A bookkeeping without the min: dists[neighbor] = dist + 1.
RECURSIVE update_dists_overwrite(_, _, _, _)
update_dists_overwrite(m, dists, neighbors, dist) ==
    IF neighbors = <<>> THEN dists
    ELSE update_dists_overwrite(
             m, [dists EXCEPT ![m.heap[Head(neighbors)].id] = dist + 1],
             Tail(neighbors), dist)

\* for neighbor in neighbors:
\*     dists[neighbor] = min(dists.get(neighbor, dist + 1), dist + 1)
RECURSIVE update_dists(_, _, _, _)
update_dists(m, dists, neighbors, dist) ==
    IF neighbors = <<>> THEN dists
    ELSE update_dists(
             m,
             [dists EXCEPT ![m.heap[Head(neighbors)].id] =
                 Min(dists_get(dists, m.heap[Head(neighbors)].id, dist + 1),
                     dist + 1)],
             Tail(neighbors), dist)

\* dists = {p: 1 for p in neighbors}; dists[self] = 0
init_dists(m, self, neighbors) ==
    [x \in population |->
        IF x = m.heap[self].id THEN 0
        ELSE IF \E i \in 1..Len(neighbors) : m.heap[neighbors[i]].id = x
             THEN 1 ELSE -1]

\* The first next(): the statements before the loop, n the neighbors read.
walk_start(g, n) ==
    [m |-> n.m,
     g |-> walk_run(n.m, [g EXCEPT !.filter = walk_filter(g.visitable, g.radius)],
                    <<g.self>> \o n.val, <<>>, init_dists(n.m, g.self, n.val))]

\* A later next(): the statements after the yield, then the loop; n the
\* neighbors of the Person yielded.
walk_resume(g, n) ==
    [m |-> n.m,
     g |-> walk_run(n.m, g, g.queue \o n.val,
                    set_add(n.m, g.visited, g.person),
                    update_dists(n.m, g.dists, n.val,
                                 g.dists[n.m.heap[g.person].id]))]

\* next(g) on a generator that has neither finished nor raised.
walk_next(m, g) ==
    IF g.pc = "created"
    THEN Bind(neighbors_of(m, g.self), LAMBDA n : walk_start(g, n))
    ELSE Bind(neighbors_of(m, g.person), LAMBDA n : walk_resume(g, n))

\* list(g): next() until the generator is exhausted or raises.
RECURSIVE walk_all(_, _)
walk_all_from(r) == walk_all(r.m, r.g)

walk_all(m, g) ==
    IF g.pc \in {"created", "yield"}
    THEN Bind(walk_next(m, g), LAMBDA r : walk_all_from(r))
    ELSE [m |-> m, g |-> g]

(***************************************************************************)
(* The caller.  Every call starts from the program state M with no query   *)
(* issued yet; `last` records the call and what it returned.               *)
(***************************************************************************)
M == [heap |-> heap, people |-> people, nq |-> 0]

\* op: the call; id, obj, field: its arguments; val: what it returned; nq:
\* the queries it issued; hit: the key was present before the call; raised:
\* it raised; was: the history variable's value before the call.
\* val and was hold the value under the call and the field it belongs to, so
\* that values of different types are never compared.
Tagged(op, field, v) == <<op, field, v>>

NoCall == [op |-> "none", id |-> None, obj |-> 0, field |-> "",
           val |-> Tagged("none", "", None), nq |-> 0, hit |-> FALSE,
           raised |-> FALSE, was |-> Tagged("none", "", None)]

\* What the last call returned; the history variable's value before it.
Ret == last.val[3]
Was == last.was[3]

\* The value assigned to the field and still in force, wrapped; <<>> if none.
AssignedTo(o, f) == IF \E a \in assigned : a[1] = o /\ a[2] = f
                    THEN <<(CHOOSE a \in assigned : a[1] = o /\ a[2] = f)[3]>>
                    ELSE <<>>

Unassign(S) == {a \in assigned : <<a[1], a[2]>> \notin S}

gens == <<desc, wlk, prevWalk>>

\* The call returned r = [m, val, raised]; no more than MaxObj Persons exist.
Returned(r, call) ==
    /\ Len(r.m.heap) <= MaxObj
    /\ heap' = r.m.heap
    /\ people' = r.m.people
    /\ last' = [call EXCEPT !.val = Tagged(call.op, call.field, r.val),
                      !.nq = r.m.nq, !.raised = r.raised]

\* list(g) returned r = [m, g].
Listed(r, call) ==
    /\ Len(r.m.heap) <= MaxObj
    /\ heap' = r.m.heap
    /\ people' = r.m.people
    /\ last' = [call EXCEPT !.val = Tagged(call.op, call.field, r.g.out),
                      !.raised = (r.g.pc = "raised")]

\* person = db.get_person(id)
GetPerson(id) ==
    /\ Returned(get_person(M, id),
                [NoCall EXCEPT !.op = "get_person", !.id = Val(id),
                               !.hit = (people[id] # 0),
                               !.was = Tagged("get_person", "", got[id])])
    /\ got' = [got EXCEPT ![id] = last'.val[3]]
    /\ UNCHANGED <<store, assigned, evicted, gens>>

\* person.<key>
Read(o, key) ==
    /\ Returned(getter(M, o, key),
                [NoCall EXCEPT !.op = "get", !.obj = o, !.field = key,
                               !.hit = heap[o].cache[key].has,
                               !.was = Tagged("get", key, AssignedTo(o, key))])
    /\ UNCHANGED <<store, got, assigned, evicted, gens>>

\* The values the caller assigns: a scalar or None; a list of Persons.
SetValues(key) ==
    CASE key = "age" -> {None, Val(5)}
      [] key = "gender" -> {None, Val("male")}
      [] OTHER -> {<<>>} \cup {<<x>> : x \in 1..Len(heap)}

\* person.<key> = val
Set(o, key, val) ==
    /\ heap' = setter(M, o, key, val).heap
    /\ last' = [NoCall EXCEPT !.op = "set", !.obj = o, !.field = key]
    /\ assigned' = Unassign({<<o, key>>}) \cup {<<o, key, val>>}
    /\ UNCHANGED <<store, people, got, evicted, gens>>

\* del person.<key>
Del(o, key) ==
    /\ heap' = deleter(M, o, key).heap
    /\ last' = [NoCall EXCEPT !.op = "del", !.obj = o, !.field = key]
    /\ assigned' = Unassign({<<o, key>>})
    /\ UNCHANGED <<store, people, got, evicted, gens>>

\* clear_cached_properties(person)
ClearProps(o) ==
    /\ heap' = clear_cached_properties(M, o).heap
    /\ last' = [NoCall EXCEPT !.op = "clear_cached_properties", !.obj = o]
    /\ assigned' = Unassign({<<o, f>> : f \in Fields})
    /\ UNCHANGED <<store, people, got, evicted, gens>>

\* db.clear_cache(id), db.clear_cache()
ClearCache(id) ==
    /\ people' = clear_cache(M, id).people
    /\ last' = [NoCall EXCEPT !.op = "clear_cache", !.id = id]
    /\ got' = [x \in population |-> 0]
    /\ evicted' = evicted \cup {x \in population : people[x] # 0 /\ people'[x] = 0}
    /\ UNCHANGED <<store, heap, assigned, gens>>

ClearArgs == {None} \cup {Val(i) : i \in 0..MaxId}

\* The predicates and radii the caller passes to walk.
Visitables == {None} \cup {Val({x}) : x \in population}
Radii == {None} \cup {Val(r) : r \in 0..MaxRadius}

\* list(person.descendants())
ListDescendants(o) ==
    /\ Listed(descendants_all(M, descendants(o)),
              [NoCall EXCEPT !.op = "descendants", !.obj = o])
    /\ UNCHANGED <<store, got, assigned, evicted, gens>>

\* list(person.walk(visitable, radius))
ListWalk(o, visitable, radius) ==
    /\ Listed(walk_all(M, walk(o, visitable, radius)),
              [NoCall EXCEPT !.op = "walk", !.obj = o])
    /\ UNCHANGED <<store, got, assigned, evicted, gens>>

\* next(g) returned r = [m, g].
Stepped(r) ==
    /\ Len(r.m.heap) <= MaxObj
    /\ heap' = r.m.heap
    /\ people' = r.m.people
    /\ last' = NoCall

\* g = person.descendants()
DescCall(o) ==
    /\ desc.pc \in {"none", "done"}
    /\ desc' = descendants(o)
    /\ last' = NoCall
    /\ UNCHANGED <<store, heap, people, got, assigned, evicted, wlk, prevWalk>>

\* next(g)
DescNext ==
    /\ desc.pc \in {"created", "yield"}
    /\ \E r \in {descendants_next(M, desc)} : Stepped(r) /\ desc' = r.g
    /\ UNCHANGED <<store, got, assigned, evicted, wlk, prevWalk>>

\* g = person.walk(visitable, radius); the caller keeps the result of the
\* walk without predicate it drove to exhaustion before.
WalkCall(o, visitable, radius) ==
    /\ wlk.pc \in {"none", "done", "raised"}
    /\ wlk' = walk(o, visitable, radius)
    /\ prevWalk' = IF wlk.pc = "done" /\ wlk.visitable = None
                   THEN [pc |-> "done", self |-> wlk.self, radius |-> wlk.radius,
                         out |-> wlk.out]
                   ELSE prevWalk
    /\ last' = NoCall
    /\ UNCHANGED <<store, heap, people, got, assigned, evicted, desc>>

\* next(g)
WalkNext ==
    /\ wlk.pc \in {"created", "yield"}
    /\ \E r \in {walk_next(M, wlk)} : Stepped(r) /\ wlk' = r.g
    /\ UNCHANGED <<store, got, assigned, evicted, desc, prevWalk>>

(***************************************************************************)
(* Initial states: a store, and a registry just constructed.               *)
(***************************************************************************)
Tables(ids, n) == {t \in SUBSET (ids \X ids) : Cardinality(t) <= n}

Fresh ==
    /\ heap = <<>>
    /\ people = [x \in population |-> 0]
    /\ last = NoCall
    /\ got = [x \in population |-> 0]
    /\ assigned = {}
    /\ evicted = {}
    /\ desc = NoGen
    /\ wlk = NoGen
    /\ prevWalk = NoGen
    /\ calls = 0

NoScalars ==
    /\ ageTable = [x \in population |-> None]
    /\ genderTable = [x \in population |-> 0]

\* Registry specifications: every relationship table, no scalar row.
Init ==
    /\ population = MIN_PERSON_ID..MaxId
    /\ relationship \in Tables(population, MaxRows)
    /\ NoScalars
    /\ Fresh

\* Lazy-field specification: an age row or none, a gender row of each code
\* or none (code 3 is outside GENDERS), at most one relationship row.
InitLazy ==
    /\ population = MIN_PERSON_ID..MaxId
    /\ relationship \in Tables(population, 1)
    /\ \E a \in {None, Val(7)} : ageTable = [x \in population |-> a]
    /\ \E c \in 0..3 : genderTable = [x \in population |-> c]
    /\ Fresh

\* Traversal specifications.
InitGraph ==
    /\ population = MIN_PERSON_ID..MaxNode
    /\ relationship \in Tables(population, MaxEdges)
    /\ NoScalars
    /\ Fresh

\* A call of a registry specification: counted, at most MaxCalls of them.
Counted == calls < MaxCalls /\ calls' = calls + 1

Next ==
    \/ \E id \in population : Counted /\ GetPerson(id)
    \/ \E o \in 1..Len(heap), key \in Fields : Counted /\ Read(o, key)
    \/ \E o \in 1..Len(heap), key \in Fields :
          \E val \in SetValues(key) : Counted /\ Set(o, key, val)
    \/ \E o \in 1..Len(heap), key \in Fields : Counted /\ Del(o, key)
    \/ \E o \in 1..Len(heap) : Counted /\ ClearProps(o)
    \/ \E id \in ClearArgs : Counted /\ ClearCache(id)
    \/ \E o \in 1..Len(heap) : Counted /\ ListDescendants(o)
    \/ \E o \in 1..Len(heap), visitable \in Visitables, radius \in Radii :
          Counted /\ ListWalk(o, visitable, radius)

Spec == Init /\ [][Next]_vars

SpecLazy == InitLazy /\ [][Next]_vars

\* Traversal specifications: the caller looks one Person up in the fresh
\* registry and traverses from it, and from the Persons that brings in.
Lookup(id) == heap = <<>> /\ GetPerson(id) /\ UNCHANGED calls

NextDesc ==
    \/ \E id \in population : Lookup(id)
    \/ \E o \in 1..Len(heap) : DescCall(o) /\ UNCHANGED calls
    \/ DescNext /\ UNCHANGED calls

SpecDesc == InitGraph /\ [][NextDesc]_vars

\* The caller drives the generator to exhaustion.
SpecDescFair == SpecDesc /\ WF_desc(DescNext /\ UNCHANGED calls)

NextWalk ==
    \/ \E id \in population : Lookup(id)
    \/ \E o \in 1..Len(heap), radius \in Radii :
          WalkCall(o, None, radius) /\ UNCHANGED calls
    \/ WalkNext /\ UNCHANGED calls

SpecWalk == InitGraph /\ [][NextWalk]_vars

\* The caller drives the walk to exhaustion.
SpecWalkFair == SpecWalk /\ WF_wlk(WalkNext /\ UNCHANGED calls)

\* Walks with a predicate.
NextWalkPred ==
    \/ \E id \in population : Lookup(id)
    \/ \E o \in 1..Len(heap), visitable \in Visitables \ {None}, radius \in Radii :
          WalkCall(o, visitable, radius) /\ UNCHANGED calls
    \/ WalkNext /\ UNCHANGED calls

SpecWalkPred == InitGraph /\ [][NextWalkPred]_vars

\* Family specification: the caller looks one Person up in the fresh registry
\* and reads parents, children and partners of the Persons it holds.
NextFamily ==
    \/ \E id \in population : Lookup(id)
    \/ \E o \in 1..Len(heap), key \in ListFields \cup {"partners"} :
          Read(o, key) /\ UNCHANGED calls

SpecFamily == InitGraph /\ [][NextFamily]_vars

(***************************************************************************)
(* Properties.                                                             *)
(***************************************************************************)
\* The ids of the Persons of a list.
Ids(s) == {heap[s[i]].id : i \in 1..Len(s)}

\* No two Persons of the list have the same id.
NoRepeat(s) == \A i, j \in 1..Len(s) : heap[s[i]].id = heap[s[j]].id => i = j

\* The ids one children edge away from the ids of S.
ChildrenOf(S) == {r[2] : r \in {q \in relationship : q[1] \in S}}

\* The ids reachable from the ids of S by zero or more children edges.
RECURSIVE ChildClosure(_)
ChildClosure(S) ==
    IF ChildrenOf(S) \subseteq S THEN S ELSE ChildClosure(S \cup ChildrenOf(S))

\* The ids reachable from id by one or more children edges.
Reachable(id) == ChildClosure(ChildrenOf({id}))

\* The Person is referenced by the registry map, or by a cached parents,
\* children or partners list of a Person.
Live(o) ==
    \/ \E x \in population : people[x] = o
    \/ \E h \in 1..Len(heap), f \in ListFields \cup {"partners"} :
          /\ heap[h].cache[f].has
          /\ \E i \in 1..Len(heap[h].cache[f].val) : heap[h].cache[f].val[i] = o

\* C1: walk(p, radius=0) with no predicate yields p once and no other
\* Person: whatever the walk has yielded so far is the one-element list [p].
C1_WalkRadiusZero ==
    (wlk.pc \in {"yield", "done"} /\ wlk.visitable = None /\ wlk.radius = Val(0))
        => wlk.out = <<wlk.self>>

\* C2: the sequence p.descendants() produces never contains a Person whose
\* id equals p.id, cycles through p included.
C2_DescendantsExcludeSelf ==
    desc.pc \in {"yield", "done"} => heap[desc.self].id \notin Ids(desc.out)

\* C3: no two elements of the sequence p.descendants() produces have the
\* same id, convergent paths and cycles included.
C3_DescendantsNoRepeat ==
    desc.pc \in {"yield", "done"} => NoRepeat(desc.out)

\* C3 witness: an exhausted traversal that yielded a Person two child-paths
\* reach: it is the child of two different Persons, each p or yielded.
C3_ConvergentPathsTraversed ==
    /\ desc.pc = "done"
    /\ \E a, b, c \in population :
          /\ a # b
          /\ {<<a, c>>, <<b, c>>} \subseteq relationship
          /\ {a, b} \subseteq Ids(desc.out) \cup {heap[desc.self].id}
          /\ c \in Ids(desc.out)

\* C4: p.descendants() driven to exhaustion terminates with an empty work
\* queue, and by then every Person reachable from p by one or more children
\* edges, other than p, has been yielded.
C4_DescendantsComplete ==
    (desc.pc = "created") ~>
        (/\ desc.pc = "done"
         /\ desc.queue = <<>>
         /\ (Reachable(heap[desc.self].id) \ {heap[desc.self].id})
               \subseteq Ids(desc.out))

\* C4 witness: an exhausted traversal over a children relation with a cycle
\* through p, which reached a Person two edges away.
C4_CycleExhausted ==
    /\ desc.pc = "done"
    /\ heap[desc.self].id \in Reachable(heap[desc.self].id)
    /\ \E c \in Reachable(heap[desc.self].id) :
          /\ c # heap[desc.self].id
          /\ <<heap[desc.self].id, c>> \notin relationship
          /\ c \in Ids(desc.out)

\* C5: for radii r1 < r2, the set walk(p, radius=r1) yields is a subset of
\* the set walk(p, radius=r2) yields; the two exhausted walks from p are
\* the one the caller kept and the one it has just driven.
C5_WalkMonotone ==
    (/\ wlk.pc = "done"
     /\ prevWalk.pc = "done"
     /\ wlk.visitable = None
     /\ wlk.self = prevWalk.self
     /\ wlk.radius # None
     /\ prevWalk.radius # None)
        => /\ prevWalk.radius[1] < wlk.radius[1]
                => Ids(prevWalk.out) \subseteq Ids(wlk.out)
           /\ wlk.radius[1] < prevWalk.radius[1]
                => Ids(wlk.out) \subseteq Ids(prevWalk.out)

\* C6: two calls get_person(x) with no clear_cache call between them return
\* the same Person instance, whatever was called in between.
C6_SameInstance ==
    (last.op = "get_person" /\ Was # 0) => Ret = Was

\* C6 witness: a second get_person(x) after the instance's fields were read,
\* while another instance exists.
C6_LookedUpAgain ==
    /\ last.op = "get_person"
    /\ Was # 0
    /\ Len(heap) >= 2
    /\ \E f \in Fields : heap[Ret].cache[f].has

\* C7 as stated: get_person never returns an instance different from another
\* instance with the same id that is still live, live meaning referenced by
\* the registry map or by a cached parents/children/partners list.
C7_NoLiveTwin ==
    last.op = "get_person" =>
        \A o \in 1..Len(heap) :
            (o # Ret /\ heap[o].id = heap[Ret].id) => ~Live(o)

\* C7 amended: get_person(x) returns the instance the registry map holds for
\* x whenever it holds one, and builds none; two instances with the same id
\* exist only once clear_cache has evicted that id, and at most one of them
\* is in the registry map.  (Every call of the specification advances calls.)
C7_RegisteredInstance ==
    /\ [][\A x \in population :
             (last'.op = "get_person" /\ last'.id = Val(x) /\ people[x] # 0)
                 => (last'.val[3] = people[x] /\ heap' = heap /\ people' = people)]_calls
    /\ [](\A a, b \in 1..Len(heap) :
             (a # b /\ heap[a].id = heap[b].id)
                 => /\ heap[a].id \in evicted
                    /\ ~(people[heap[a].id] = a /\ people[heap[b].id] = b))

\* C7 witness: get_person returned the registered instance while an evicted
\* instance with the same id is still in a cached list.
C7_TwinAfterEviction ==
    /\ last.op = "get_person"
    /\ people[last.id[1]] = Ret
    /\ \E o \in 1..Len(heap) :
          o # Ret /\ heap[o].id = heap[Ret].id /\ Live(o)

C9_AssignedValueRead ==
    (last.op = "get" /\ Was # <<>>)
        => (~last.raised /\ last.nq = 0 /\ Ret = Was[1])

\* C9 witness: a read of age after None was assigned to it, on a Person
\* whose age row holds a value.
C9_AssignedNoneRead ==
    /\ last.op = "get"
    /\ last.field = "age"
    /\ Was = <<None>>
    /\ ageTable[heap[last.obj].id] # None

\* C10: the list p.partners computes, from fields no caller assigned,
\* contains no Person whose id equals p.id and no two Persons with the same
\* id, evictions before the read included.
C10_PartnersExcludeSelf ==
    (last.op = "get" /\ last.field = "partners" /\ ~last.hit /\ ~last.raised
        /\ assigned = {})
        => (heap[last.obj].id \notin Ids(Ret) /\ NoRepeat(Ret))

\* The ids other than id that the store records as a parent of a child of id.
CoParents(id) ==
    {r[1] : r \in {q \in relationship :
                      q[1] # id /\ <<id, q[2]>> \in relationship}}

\* C11: in a fresh registry the first read of p.partners returns, as a set
\* of ids, exactly the ids q # p.id that are a parent of some child of p.
C11_PartnersCoParents ==
    (last.op = "get" /\ last.field = "partners" /\ ~last.hit)
        => (~last.raised /\ Ids(Ret) = CoParents(heap[last.obj].id))

\* C11 witness: A.partners computed as [D], D the other parent of a child
\* of A, three different Persons.
C11_CoParentFound ==
    /\ last.op = "get"
    /\ last.field = "partners"
    /\ ~last.hit
    /\ Len(Ret) = 1
    /\ \E c \in population :
          /\ c \notin {heap[last.obj].id, heap[Ret[1]].id}
          /\ {<<heap[last.obj].id, c>>, <<heap[Ret[1]].id, c>>}
                \subseteq relationship

\* C12: clear_cache(id) with an integer id, 0 included, removes at most the
\* registry entry for that id and leaves every other entry unchanged (every
\* call of the specification advances calls).
C12_ClearCacheOneEntry ==
    [][(last'.op = "clear_cache" /\ last'.id # None)
          => \A x \in population : x # last'.id[1] => people'[x] = people[x]]_calls

\* C13: the sequence walk(start, visitable, radius) produces contains start,
\* for every radius and every predicate, one false on start included.
C13_WalkContainsStart ==
    last.op = "walk" => heap[last.obj].id \in Ids(Ret)

\* C14: a gender read that finds no cached value yields male for stored
\* code 1, female for code 2 and the absent value when the store has no row;
\* for any other code it raises and leaves the gender cache empty, so the
\* next read queries the store again.
C14_GenderCodes ==
    (last.op = "get" /\ last.field = "gender" /\ ~last.hit) =>
        /\ last.nq = 1
        /\ CASE genderTable[heap[last.obj].id] = 0 ->
                    ~last.raised /\ Ret = None
             [] genderTable[heap[last.obj].id] = MALE_CODE ->
                    ~last.raised /\ Ret = Val("male")
             [] genderTable[heap[last.obj].id] = FEMALE_CODE ->
                    ~last.raised /\ Ret = Val("female")
             [] OTHER ->
                    last.raised /\ heap[last.obj].cache["gender"] = Empty

\* C14 witness: a gender read of a code outside the table raised, on a
\* Person another of whose fields is cached.
C14_UnknownCodeRaised ==
    /\ last.op = "get"
    /\ last.field = "gender"
    /\ last.raised
    /\ genderTable[heap[last.obj].id] = 3
    /\ heap[last.obj].cache["age"].has

\* C15: with both a predicate f and a radius r >= 1, the visitability test
\* completes without error, and the Persons yielded are Persons that pass
\* f(q) and dists[q] <= r.
C15_PredicateAndRadius ==
    (/\ wlk.pc \in {"yield", "done", "raised"}
     /\ wlk.visitable # None
     /\ wlk.radius # None
     /\ wlk.radius[1] >= 1)
        => /\ wlk.pc # "raised"
           /\ \A i \in 1..Len(wlk.out) :
                 /\ heap[wlk.out[i]].id \in wlk.visitable[1]
                 /\ wlk.dists[heap[wlk.out[i]].id] <= wlk.radius[1]

\* C16: walk(start) with no predicate, with or without a radius, yields no
\* id twice and, driven to exhaustion, terminates with an empty queue.
C16_WalkTerminates ==
    /\ [](wlk.pc \in {"yield", "done"} => NoRepeat(wlk.out))
    /\ (wlk.pc = "created") ~> (wlk.pc = "done" /\ wlk.queue = <<>>)

\* C16 witness: an exhausted walk with a radius that yielded three Persons
\* of a graph whose children edges form a cycle through start.
C16_CyclicWalkExhausted ==
    /\ wlk.pc = "done"
    /\ wlk.radius # None
    /\ Len(wlk.out) = 3
    /\ heap[wlk.self].id \in Reachable(heap[wlk.self].id)

\* The ids of the co-parents the cached lists give for the Person o: the
\* parents, other than o's id, of the Persons of o.children.
DerivedPartners(o) ==
    {heap[q].id :
        q \in UNION {{heap[c].cache["parents"].val[i] :
                         i \in 1..Len(heap[c].cache["parents"].val)} :
                     c \in {heap[o].cache["children"].val[j] :
                               j \in 1..Len(heap[o].cache["children"].val)}}}
        \ {heap[o].id}

\* C17: every read of p.partners returns the co-parent set that p.children
\* and the parents of each child hold at the moment of the read, also after
\* one of these lists was assigned since the previous read of p.partners.
C17_PartnersDerived ==
    (/\ last.op = "get"
     /\ last.field = "partners"
     /\ ~last.raised
     /\ heap[last.obj].cache["children"].has
     /\ \A j \in 1..Len(heap[last.obj].cache["children"].val) :
           heap[heap[last.obj].cache["children"].val[j]].cache["parents"].has)
        => Ids(Ret) = DerivedPartners(last.obj)


\* C18: a read of a lazy field changes no cached value of any field of any
\* Person and no existing registry entry: every Person stays, every filled
\* cache slot keeps its value, every registered id keeps its instance; the
\* read only fills empty slots and registers ids that had no entry (every
\* call of the specification advances calls).
C18_ReadFrame ==
    [][last'.op = "get" =>
          /\ Len(heap') >= Len(heap)
          /\ \A o \in 1..Len(heap) :
                /\ heap'[o].id = heap[o].id
                /\ \A f \in Fields :
                      heap[o].cache[f].has => heap'[o].cache[f] = heap[o].cache[f]
          /\ \A x \in population : people[x] # 0 => people'[x] = people[x]]_calls

\* C18 witness: partners was computed, and the computation registered a
\* Person, while a field assigned before the read holds its assigned value.
C18_ComputedBesideAssigned ==
    /\ last.op = "get"
    /\ last.field = "partners"
    /\ ~last.hit
    /\ evicted = {}
    /\ Cardinality({x \in population : got[x] # 0}) = 1
    /\ Len(heap) >= 2
    /\ \E a \in assigned : heap[a[1]].cache[a[2]] = Filled(a[3])

\* The ids within k steps of the ids S along relationship rows taken in
\* either direction.
RECURSIVE Ball(_, _)
Ball(S, k) ==
    IF k = 0 THEN S
    ELSE Ball(S \cup {r[2] : r \in {q \in relationship : q[1] \in S}}
                \cup {r[1] : r \in {q \in relationship : q[2] \in S}}, k - 1)

\* b is connected to a, and the length of the shortest path between them.
Connected(a, b) == b \in Ball({a}, Cardinality(population))

TrueDist(a, b) ==
    CHOOSE k \in 0..Cardinality(population) :
        b \in Ball({a}, k) /\ \A j \in 0..(k - 1) : b \notin Ball({a}, j)

\* The walk has run its set-up: it is suspended at a yield or exhausted.
WalkRunning == wlk.pc \in {"yield", "done"}

\* C19: in every state of a walk without predicate dists[start] = 0; every
\* recorded dists[q] belongs to a Person connected to start and is at least
\* the length of the shortest path from start to q along children and
\* parents edges; with a radius r >= 1 every Person yielded is within that
\* true distance r of start; and no recorded distance increases or is
\* dropped when the walk goes on.
C19_DistanceBounds ==
    /\ [](WalkRunning =>
            /\ wlk.dists[heap[wlk.self].id] = 0
            /\ \A q \in population : wlk.dists[q] # -1 =>
                  /\ Connected(heap[wlk.self].id, q)
                  /\ wlk.dists[q] >= TrueDist(heap[wlk.self].id, q)
            /\ (wlk.radius # None /\ wlk.radius[1] >= 1) =>
                  \A i \in 1..Len(wlk.out) :
                     /\ Connected(heap[wlk.self].id, heap[wlk.out[i]].id)
                     /\ TrueDist(heap[wlk.self].id, heap[wlk.out[i]].id)
                           <= wlk.radius[1])
    /\ [][wlk.pc = "yield" =>
            \A q \in population : wlk.dists[q] # -1 =>
                (wlk'.dists[q] # -1 /\ wlk'.dists[q] <= wlk.dists[q])]_wlk

\* C19 witness: a walk of radius 1 is exhausted; it yielded start and a
\* neighbour, and recorded distance 2 for a Person it did not yield.
C19_BeyondRadiusRecorded ==
    /\ wlk.pc = "done"
    /\ wlk.visitable = None
    /\ wlk.radius = Val(1)
    /\ Len(wlk.out) >= 2
    /\ \E q \in population : wlk.dists[q] = 2 /\ q \notin Ids(wlk.out)

\* The ids start is connected to along children and parents edges, start
\* included.
Component(start) == Ball({start}, Cardinality(population))

\* A walk from start without predicate and without radius.
PlainWalk == wlk.visitable = None /\ wlk.radius = None

\* C20: walk(start) with no predicate and no radius, driven to exhaustion,
\* has yielded exactly the Persons reachable from start by following
\* children or parents lists, start included, each id once, for every
\* content of the relationship table.
C20_WalkYieldsComponent ==
    /\ []((wlk.pc = "done" /\ PlainWalk) =>
            /\ Ids(wlk.out) = Component(heap[wlk.self].id)
            /\ NoRepeat(wlk.out))
    /\ (wlk.pc = "created" /\ PlainWalk) ~> (wlk.pc = "done" /\ PlainWalk)

\* C20 witness: an exhausted plain walk yielded three Persons from a start
\* that has no child, so that the others were reached through its parents.
C20_ReachedThroughParents ==
    /\ wlk.pc = "done"
    /\ PlainWalk
    /\ Len(wlk.out) = 3
    /\ ChildRows(heap[wlk.self].id) = <<>>

=============================================================================
